---- MODULE Spec2Model ----
(***************************************************************************)
(* wrfhydropy/core/ioutils.py: the forcing relocator                       *)
(* (nwm_forcing_to_ldasin) and the forecast assembler (open_nwmdataset).   *)
(*                                                                         *)
(* Strings are sequences of atoms.  An atom is a digit character, one of   *)
(* the separators "." and "_", or a lower-case word; Python's substring    *)
(* test, str.split, the glob match and re.findall(r'\d+') are computed on  *)
(* these sequences the way Python computes them on characters.  Paths are  *)
(* taken to be absolute, the source root and the source files exist for    *)
(* the whole run, and day-directory names are "nwm." followed by the eight *)
(* digits of a valid calendar date.                                        *)
(***************************************************************************)
EXTENDS Integers, Sequences, FiniteSets, TLC

\* ------------------------------------------------------------------ bounds
\* Invocations of nwm_forcing_to_ldasin in one behaviour.
MaxCalls == 2
\* Entries in the source tree.
MaxFiles == 2
\* Input files handed to open_nwmdataset.
MaxPaths == 3

\* ----------------------------------------------------------------- strings
DigitChars == <<"0", "1", "2", "3", "4", "5", "6", "7", "8", "9">>

IsDigit(a) == \E i \in 1..10 : DigitChars[i] = a

DigitVal(a) == (CHOOSE i \in 1..10 : DigitChars[i] = a) - 1

\* s starts with p
StartsWith(s, p) == Len(s) >= Len(p) /\ SubSeq(s, 1, Len(p)) = p

Drop(s, n) == SubSeq(s, n + 1, Len(s))

\* Python: sub in s
Contains(s, sub) == \E i \in 0..(Len(s) - Len(sub)) : StartsWith(Drop(s, i), sub)

\* Python: s.split(sep), sep not empty; cur is the piece being collected
RECURSIVE SplitAcc(_, _, _)
SplitAcc(s, sep, cur) ==
    IF Len(s) < Len(sep) THEN <<cur \o s>>
    ELSE IF StartsWith(s, sep) THEN <<cur>> \o SplitAcc(Drop(s, Len(sep)), sep, <<>>)
    ELSE SplitAcc(Tail(s), sep, Append(cur, Head(s)))

Split(s, sep) == SplitAcc(s, sep, <<>>)

\* fnmatch of one path component: "*" any run, "[0-9]" one digit, else literal
RECURSIVE GlobMatch(_, _)
GlobMatch(pat, s) ==
    IF pat = <<>> THEN s = <<>>
    ELSE IF Head(pat) = "*"
         THEN GlobMatch(Tail(pat), s) \/ (s # <<>> /\ GlobMatch(pat, Tail(s)))
    ELSE IF Head(pat) = "[0-9]"
         THEN s # <<>> /\ IsDigit(Head(s)) /\ GlobMatch(Tail(pat), Tail(s))
    ELSE s # <<>> /\ Head(s) = Head(pat) /\ GlobMatch(Tail(pat), Tail(s))

\* re.findall(r'\d+', field)[0]: the first maximal run of digits, <<>> when
\* there is none (Python raises IndexError on the [0])
RECURSIVE TakeDigits(_)
TakeDigits(s) ==
    IF s = <<>> \/ ~IsDigit(Head(s)) THEN <<>> ELSE <<Head(s)>> \o TakeDigits(Tail(s))

RECURSIVE FirstDigitRun(_)
FirstDigitRun(s) ==
    IF s = <<>> THEN <<>>
    ELSE IF IsDigit(Head(s)) THEN TakeDigits(s)
    ELSE FirstDigitRun(Tail(s))

\* int() of a run of decimal digits
RECURSIVE IntOf(_)
IntOf(ds) ==
    IF ds = <<>> THEN 0 ELSE 10 * IntOf(SubSeq(ds, 1, Len(ds) - 1)) + DigitVal(ds[Len(ds)])

\* the order sorted() puts names in: atoms in ASCII order of their text
Alphabet ==
    <<".", "0", "1", "2", "3", "4", "5", "6", "7", "8", "9", "_",
      "analysis", "assim", "channel", "conus", "extend", "f", "forcing", "hawaii",
      "medium", "nc", "nwm", "range", "short", "t", "tm", "z">>

Rank(a) == CHOOSE i \in 1..Len(Alphabet) : Alphabet[i] = a

RECURSIVE LexLess(_, _)
LexLess(s, t) ==
    IF t = <<>> THEN FALSE
    ELSE IF s = <<>> THEN TRUE
    ELSE IF Head(s) = Head(t) THEN LexLess(Tail(s), Tail(t))
    ELSE Rank(Head(s)) < Rank(Head(t))

\* sorted(S) for a set of names
RECURSIVE Sorted(_)
Sorted(S) ==
    IF S = {} THEN <<>>
    ELSE LET lo == CHOOSE x \in S : \A y \in S \ {x} : LexLess(x, y)
         IN  <<lo>> \o Sorted(S \ {lo})

\* ------------------------------------------------------------------- dates
IsLeap(y) == (y % 4 = 0 /\ y % 100 # 0) \/ y % 400 = 0

DaysInMonth(y, m) ==
    IF m = 2 THEN (IF IsLeap(y) THEN 29 ELSE 28)
    ELSE IF m \in {4, 6, 9, 11} THEN 30 ELSE 31

NextDate(t) ==
    IF t.d < DaysInMonth(t.y, t.m) THEN [t EXCEPT !.d = t.d + 1]
    ELSE IF t.m < 12 THEN [t EXCEPT !.m = t.m + 1, !.d = 1]
    ELSE [t EXCEPT !.y = t.y + 1, !.m = 1, !.d = 1]

PrevDate(t) ==
    IF t.d > 1 THEN [t EXCEPT !.d = t.d - 1]
    ELSE IF t.m > 1 THEN [t EXCEPT !.m = t.m - 1, !.d = DaysInMonth(t.y, t.m - 1)]
    ELSE [t EXCEPT !.y = t.y - 1, !.m = 12, !.d = 31]

RECURSIVE ShiftDays(_, _)
ShiftDays(t, k) ==
    IF k = 0 THEN t
    ELSE IF k > 0 THEN ShiftDays(NextDate(t), k - 1)
    ELSE ShiftDays(PrevDate(t), k + 1)

\* datetime + datetime.timedelta(hours=n), n of either sign
AddHours(t, n) ==
    LET tot == t.H + n
    IN  [ShiftDays(t, tot \div 24) EXCEPT !.H = tot % 24]

\* datetime.datetime.strptime(name, 'nwm.%Y%m%d')
Strptime(name) ==
    [y |-> IntOf(SubSeq(name, 3, 6)), m |-> IntOf(SubSeq(name, 7, 8)),
     d |-> IntOf(SubSeq(name, 9, 10)), H |-> 0]

\* n in decimal, zero-padded to w digits
RECURSIVE Pad(_, _)
Pad(n, w) == IF w = 0 THEN <<>> ELSE Pad(n \div 10, w - 1) \o <<DigitChars[(n % 10) + 1]>>

\* strftime('%Y%m%d%H')
Stamp(t) == Pad(t.y, 4) \o Pad(t.m, 2) \o Pad(t.d, 2) \o Pad(t.H, 2)

\* ------------------------------------------------------------ name pieces
Dot == <<".">>

ForcingPrefix == <<"forcing", "_">>

HawaiiSuffix == <<"_", "hawaii">>

ExtendSuffix == <<"_", "extend">>

AnalysisAssim == <<"analysis", "_", "assim">>

MediumRange == <<"medium", "_", "range">>

ShortRange == <<"short", "_", "range">>

LdasinSuffix == <<".", "LDASIN", "_", "DOMAIN1">>

\* the range categories the docstring enumerates
EnumeratedRanges ==
    {AnalysisAssim, AnalysisAssim \o ExtendSuffix, AnalysisAssim \o HawaiiSuffix,
     MediumRange, ShortRange, ShortRange \o HawaiiSuffix}

\* ------------------------------------------------------------ source trees
Day(digits) == <<"nwm", ".">> \o digits

Day20200601 == Day(<<"2", "0", "2", "0", "0", "6", "0", "1">>)

Day20191231 == Day(<<"2", "0", "1", "9", "1", "2", "3", "1">>)

Day20200301 == Day(<<"2", "0", "2", "0", "0", "3", "0", "1">>)

\* a day directory that is in no source tree
MissingDay == Day(<<"2", "0", "2", "0", "0", "6", "0", "2">>)

\* nwm.<cycle>.<product>.forcing.<lead>.<region>.nc
ForcingName(cycle, product, lead, region) ==
    <<"nwm", ".">> \o cycle \o Dot \o product \o <<".", "forcing", ".">> \o lead
        \o Dot \o region \o <<".", "nc">>

\* a file named name in directory day/member of the source root
File(day, member, name) == [day |-> day, member |-> member, name |-> name, isdir |-> TRUE]

\* a plain file named member in directory day of the source root
PlainFile(day, member) == [day |-> day, member |-> member, name |-> <<>>, isdir |-> FALSE]

MediumConus003 ==
    File(Day20200601, ForcingPrefix \o MediumRange,
         ForcingName(<<"t", "0", "0", "z">>, MediumRange, <<"f", "0", "0", "3">>, <<"conus">>))

MediumHawaii003 ==
    File(Day20200601, ForcingPrefix \o MediumRange,
         ForcingName(<<"t", "0", "0", "z">>, MediumRange, <<"f", "0", "0", "3">>, <<"hawaii">>))

ShortConus ==
    File(Day20191231, ForcingPrefix \o ShortRange,
         ForcingName(<<"t", "2", "3", "z">>, ShortRange, <<"f", "0", "0", "2">>, <<"conus">>))

ShortHawaii ==
    File(Day20200601, ForcingPrefix \o ShortRange \o HawaiiSuffix,
         ForcingName(<<"t", "1", "2", "z">>, ShortRange, <<"f", "0", "0", "1">>, <<"hawaii">>))

\* carries the suffix in the file name too: the stripped file glob skips it
ShortHawaiiNamed ==
    File(Day20200601, ForcingPrefix \o ShortRange \o HawaiiSuffix,
         ForcingName(<<"t", "1", "2", "z">>, ShortRange \o HawaiiSuffix,
                     <<"f", "0", "0", "1">>, <<"hawaii">>))

Assim ==
    File(Day20200301, ForcingPrefix \o AnalysisAssim,
         ForcingName(<<"t", "0", "0", "z">>, AnalysisAssim, <<"tm", "0", "2">>, <<"conus">>))

AssimExtend ==
    File(Day20200601, ForcingPrefix \o AnalysisAssim \o ExtendSuffix,
         ForcingName(<<"t", "1", "6", "z">>, AnalysisAssim \o ExtendSuffix,
                     <<"tm", "2", "7">>, <<"conus">>))

AssimHawaii ==
    File(Day20200601, ForcingPrefix \o AnalysisAssim \o HawaiiSuffix,
         ForcingName(<<"t", "0", "0", "z">>, AnalysisAssim, <<"tm", "0", "1">>, <<"hawaii">>))

\* medium_range.forcing.nc: three fields, no digit in field 1
NoCycleDigits ==
    File(Day20200601, ForcingPrefix \o MediumRange,
         MediumRange \o <<".", "forcing", ".", "nc">>)

\* nwm.t06z.medium_range.forcing.nc: five fields, no digit in field 4
NoLeadDigits ==
    File(Day20200601, ForcingPrefix \o MediumRange,
         <<"nwm", ".", "t", "0", "6", "z", ".">> \o MediumRange \o <<".", "forcing", ".", "nc">>)

\* a plain file where a member directory would be
MediumNotDir == PlainFile(Day20191231, ForcingPrefix \o MediumRange)

\* the entries a source tree is drawn from; a tree holds their indices
SourceEntries ==
    <<MediumConus003, MediumHawaii003, ShortConus, ShortHawaii, ShortHawaiiNamed, Assim,
      AssimExtend, AssimHawaii, NoCycleDigits, NoLeadDigits, MediumNotDir>>

Entry(i) == SourceEntries[i]

\* the range arguments tried: the enumerated ones, and one with the prefix
RangeArgs == EnumeratedRanges \cup {ForcingPrefix \o ShortRange}

Trees == {t \in SUBSET (1..Len(SourceEntries)) : Cardinality(t) <= MaxFiles}

FilesOf(tree) == {i \in tree : Entry(i).isdir}

DaysOf(tree) == {Entry(i).day : i \in tree}

\* a sequence back to front
RECURSIVE Reverse(_)
Reverse(q) == IF q = <<>> THEN <<>> ELSE Append(Reverse(Tail(q)), Head(q))

\* the nwm_forcing_dir arguments tried for a tree: the source root, the
\* tree's day directories as a list with the latest first, a list naming a
\* missing one
SourceArgs(tree) ==
    {[list |-> FALSE, dirs |-> <<>>],
     [list |-> TRUE, dirs |-> Reverse(Sorted(DaysOf(tree)))],
     [list |-> TRUE, dirs |-> <<MissingDay>>]}

\* ------------------------------------------------------ per-file computation
\* 'forcing_' prepended to the range: keep what follows it
NormalizeRange(r) ==
    IF Contains(r, ForcingPrefix) THEN Split(r, ForcingPrefix)[2] ELSE r

\* the glob that finds the member directories of a day
MemberPattern(r) == ForcingPrefix \o r

\* ReRange that leaves the suffix on
ReRangeKeep(r) == r

\* the range with a '_hawaii' suffix cut off
ReRange(r) == IF Contains(r, HawaiiSuffix) THEN Split(r, HawaiiSuffix)[1] ELSE r

\* the glob that finds the forcing files of a member directory
FilePattern(r) == <<"*">> \o ReRange(r) \o <<".", "forcing", ".", "*">>

\* the glob that finds the day directories of the source root
DailyPattern == <<"nwm", ".", "*", "[0-9]">>

\* FieldDigits that reads a missing field or run as "0"
FieldDigitsOrZero(name, k) ==
    LET name_split == Split(name, Dot)
        run == IF Len(name_split) >= k + 1 THEN FirstDigitRun(name_split[k + 1]) ELSE <<>>
    IN  IF run = <<>> THEN <<"0">> ELSE run

\* the first digit run of field k (counted from 0) of a file name; <<>> when
\* the field or the run is missing (IndexError)
FieldDigits(name, k) ==
    LET name_split == Split(name, Dot)
    IN  IF Len(name_split) >= k + 1 THEN FirstDigitRun(name_split[k + 1]) ELSE <<>>

\* ModelTime with the cast hour added whatever the range
ModelTimeAlwaysAdd(r, init_hour, cast_hour) == init_hour + cast_hour

\* hours from the day's midnight to the valid time
ModelTime(r, init_hour, cast_hour) ==
    IF Contains(r, AnalysisAssim) THEN init_hour - cast_hour ELSE init_hour + cast_hour

\* InitTimeDir formatted without the hour
InitTimeDirNoHour(day, init_hour) == SubSeq(Stamp(AddHours(day, init_hour)), 1, 8)

\* the name of the init-time directory
InitTimeDir(day, init_hour) == Stamp(AddHours(day, init_hour))

\* ldasin_time.strftime(fmt) for forc_type 1 and 2
LdasinName(ft, ldasin_time) ==
    IF ft = 1 THEN Stamp(ldasin_time) \o LdasinSuffix
    ELSE Stamp(ldasin_time) \o <<"0", "0">> \o LdasinSuffix

\* Materialize that refuses to copy over an existing entry
MaterializeNoOverwrite(f, dir, fname, cp, ents, content) ==
    LET old == {e \in ents : e.dir = dir /\ e.name = fname}
        new(k, r) == [dir |-> dir, name |-> fname, kind |-> k, ref |-> r]
    IN  IF old # {}
        THEN [err |-> "FileExistsError", entries |-> ents, content |-> content]
        ELSE [err |-> "", content |-> content,
              entries |-> ents \cup {IF cp THEN new("file", content[f]) ELSE new("link", f)}]

\* Materialize that links over an existing entry
MaterializeReplaceLink(f, dir, fname, cp, ents, content) ==
    LET old == {e \in ents : e.dir = dir /\ e.name = fname}
        new(k, r) == [dir |-> dir, name |-> fname, kind |-> k, ref |-> r]
    IN  [err |-> "", content |-> content,
         entries |-> (ents \ old) \cup {IF cp THEN new("file", content[f]) ELSE new("link", f)}]

\* shutil.copy(f, path) when cp, path.symlink_to(f) otherwise.  An entry of
\* the destination is a link (ref: the source file it points at) or a regular
\* file (ref: the content copied into it); content maps each source file to
\* the content it holds now.
Materialize(f, dir, fname, cp, ents, content) ==
    LET old == {e \in ents : e.dir = dir /\ e.name = fname}
        new(k, r) == [dir |-> dir, name |-> fname, kind |-> k, ref |-> r]
    IN  IF ~cp
        THEN IF old # {}
             THEN [err |-> "FileExistsError", entries |-> ents, content |-> content]
             ELSE [err |-> "", entries |-> ents \cup {new("link", f)}, content |-> content]
        ELSE IF old = {}
             THEN [err |-> "", entries |-> ents \cup {new("file", content[f])},
                   content |-> content]
             ELSE LET e == CHOOSE e \in old : TRUE
                  IN  IF e.kind = "file"
                      THEN [err |-> "", content |-> content,
                            entries |-> (ents \ old) \cup {new("file", content[f])}]
                      ELSE IF e.ref = f
                      THEN [err |-> "SameFileError", entries |-> ents, content |-> content]
                      ELSE [err |-> "", entries |-> ents,
                            content |-> [content EXCEPT ![e.ref] = content[f]]]

\* one pass of the loop body over forcing file f: what it raises ("" when
\* nothing), the init-time directories after it, the entries and the source
\* contents after it, and the destination path when one was computed
Relocate(f, day, r, ft, cp, ds, ents, content) ==
    LET run1 == FieldDigits(Entry(f).name, 1)
        run4 == FieldDigits(Entry(f).name, 4)
        init_hour == IntOf(run1)
        dir == InitTimeDir(day, init_hour)
        cast_hour == IntOf(run4)
        ldasin_time == AddHours(day, ModelTime(r, init_hour, cast_hour))
        fname == LdasinName(ft, ldasin_time)
        m == Materialize(f, dir, fname, cp, ents, content)
        fail(e, d) == [err |-> e, dirs |-> d, entries |-> ents, content |-> content,
                       path |-> <<>>]
    IN  IF run1 = <<>> THEN fail("IndexError", ds)
        ELSE IF run4 = <<>> THEN fail("IndexError", ds \cup {dir})
        ELSE IF ft \notin {1, 2} THEN fail("ValueError", ds \cup {dir})
        ELSE [err |-> m.err, dirs |-> ds \cup {dir}, entries |-> m.entries,
              content |-> m.content, path |-> <<dir, fname>>]

\* ------------------------------------------------------------------- state
VARIABLES
    srcTree,         \* the entries under the source root
    srcContent,      \* source file -> the content it holds
    nwm_forcing_dir, \* argument: the source root, or a list of day directories
    range_arg,       \* argument: the range as passed
    ldasin_exists,   \* the destination root exists
    dirs,            \* the init-time directories under the destination root
    entries,         \* the files and links in them
    cwd,             \* the process's working directory
    warned,          \* warnings.warn was called
    calls,           \* invocations started
    pc,              \* "idle", "file", "done", "error"
    err,             \* the exception raised
    range,           \* local: the range after line 319
    copy,            \* argument
    forc_type,       \* argument
    loop,            \* locals of the loops: daily_dirs and member_dirs still to visit,
                     \* daily_dir, the_day, member_dir, forcing_files not yet yielded
    forcing_file,    \* local
    log,             \* the destination entries this invocation materialised, in order
    prev,            \* forc_type of the invocation before, if it copied and returned, else 0
    repeat,          \* this invocation repeats the one before: copy, same forc_type
    start,           \* the destination as this invocation found it
    paths,           \* open_nwmdataset: reference_time of the file at each path
    forecast,        \* open_nwmdataset: argument
    opened,          \* open_nwmdataset: files opened so far
    ds_dict,         \* open_nwmdataset: <<key, datasets>> pairs in insertion order
    forecast_list,   \* open_nwmdataset: the forecasts concatenated so far
    nwm_dataset,     \* open_nwmdataset: the result
    apc              \* open_nwmdataset: "open", "done", "error", "off"

vars ==
    <<srcTree, srcContent, nwm_forcing_dir, range_arg, ldasin_exists, dirs, entries, cwd,
      warned, calls, pc, err, range, copy, forc_type, loop, forcing_file, log, prev, repeat,
      start, paths, forecast, opened, ds_dict, forecast_list, nwm_dataset, apc>>

relocatorVars ==
    <<srcTree, srcContent, nwm_forcing_dir, range_arg, ldasin_exists, dirs, entries, cwd,
      warned, calls, pc, err, range, copy, forc_type, loop, forcing_file, log, prev, repeat,
      start>>

assemblerVars == <<paths, forecast, opened, ds_dict, forecast_list, nwm_dataset, apc>>

NoDay == [y |-> 0, m |-> 0, d |-> 0, H |-> 0]

\* forcing_file before the first file
NoFile == 0

\* the names in directory day of the source root that match pat
MembersMatching(tree, day, pat) ==
    {Entry(i).member : i \in {x \in tree : Entry(x).day = day /\ GlobMatch(pat, Entry(x).member)}}

\* the files of directory day/member whose names match pat
FilesMatching(tree, day, member, pat) ==
    {i \in FilesOf(tree) :
        Entry(i).day = day /\ Entry(i).member = member /\ GlobMatch(pat, Entry(i).name)}

\* member_dir.is_dir()
IsDir(tree, day, member) ==
    \E i \in FilesOf(tree) : Entry(i).day = day /\ Entry(i).member = member

\* the loop headers of lines 349, 355 and 364, from position p (the locals of
\* the three loops) to the next forcing file the glob can yield: a member
\* directory exhausted gives way to the next one that is a directory, a day
\* exhausted to the next day; done when no day is left
RECURSIVE Advance(_, _, _)
Advance(tree, r, p) ==
    IF p.forcing_files # {} THEN p
    ELSE IF p.member_dirs # <<>>
    THEN LET md == Head(p.member_dirs)
         IN  Advance(tree, r,
                 [p EXCEPT !.member_dir = md, !.member_dirs = Tail(p.member_dirs),
                           !.forcing_files =
                               IF IsDir(tree, p.daily_dir, md)
                               THEN FilesMatching(tree, p.daily_dir, md, FilePattern(r))
                               ELSE {}])
    ELSE IF p.daily_dirs # <<>>
    THEN LET dd == Head(p.daily_dirs)
         IN  Advance(tree, r,
                 [p EXCEPT !.daily_dir = dd, !.daily_dirs = Tail(p.daily_dirs),
                           !.the_day = Strptime(dd),
                           !.member_dirs = Sorted(MembersMatching(tree, dd, MemberPattern(r)))])
    ELSE [p EXCEPT !.done = TRUE]

\* the loops' locals before the first day directory
LoopStart(dds) ==
    [daily_dirs |-> dds, daily_dir |-> <<>>, the_day |-> NoDay, member_dirs |-> <<>>,
     member_dir |-> <<>>, forcing_files |-> {}, done |-> FALSE]

\* start between invocations
NoStart == [exists |-> FALSE, dirs |-> {}, entries |-> {}]

\* the destination and the locals before the first invocation
RelocatorStart ==
    /\ ldasin_exists = FALSE
    /\ dirs = {}
    /\ entries = {}
    /\ cwd = "start"
    /\ warned = FALSE
    /\ calls = 0
    /\ pc = "idle"
    /\ err = ""
    /\ range = <<>>
    /\ copy = FALSE
    /\ forc_type = 0
    /\ loop = LoopStart(<<>>)
    /\ forcing_file = NoFile
    /\ log = <<>>
    /\ prev = 0
    /\ repeat = FALSE
    /\ start = NoStart

\* no dataset yet
NoDataset == [reference_time |-> <<>>, time |-> <<>>]

\* open_nwmdataset before its first file
AssemblerStart ==
    /\ opened = 0
    /\ ds_dict = <<>>
    /\ forecast_list = <<>>
    /\ nwm_dataset = NoDataset

Init ==
    /\ srcTree \in Trees
    /\ srcContent = [f \in FilesOf(srcTree) |-> f]
    /\ nwm_forcing_dir \in SourceArgs(srcTree)
    /\ range_arg \in RangeArgs
    /\ RelocatorStart
    /\ paths = <<>>
    /\ forecast = TRUE
    /\ AssemblerStart
    /\ apc = "off"

\* the day directories of lines 328-347: the list as given, or the sorted glob
DailyDirs(tree, src) ==
    IF src.list THEN src.dirs
    ELSE Sorted({d \in DaysOf(tree) : GlobMatch(DailyPattern, d)})

\* lines 316-349: the arguments, the destination root, the day directories,
\* and the loops down to the first forcing file
Call(cp, ft) ==
    /\ pc = "idle"
    /\ calls < MaxCalls
    /\ calls' = calls + 1
    /\ copy' = cp
    /\ forc_type' = ft
    /\ repeat' = (cp /\ prev = ft)
    /\ start' = [exists |-> ldasin_exists, dirs |-> dirs, entries |-> entries]
    /\ range' = NormalizeRange(range_arg)
    /\ ldasin_exists' = TRUE
    /\ cwd' = IF nwm_forcing_dir.list THEN cwd ELSE "nwm_forcing_dir"
    /\ warned' = (warned \/ (~nwm_forcing_dir.list /\ DaysOf(srcTree) = {}))
    /\ IF nwm_forcing_dir.list
          /\ \E i \in 1..Len(nwm_forcing_dir.dirs) : nwm_forcing_dir.dirs[i] \notin DaysOf(srcTree)
       THEN /\ pc' = "error"
            /\ err' = "FileNotFoundError"
            /\ loop' = LoopStart(nwm_forcing_dir.dirs)
       ELSE /\ loop' = Advance(srcTree, range', LoopStart(DailyDirs(srcTree, nwm_forcing_dir)))
            /\ pc' = IF loop'.done THEN "done" ELSE "file"
            /\ err' = ""
    /\ UNCHANGED <<srcTree, srcContent, nwm_forcing_dir, range_arg, dirs, entries,
                   forcing_file, log, prev>>
    /\ UNCHANGED assemblerVars

\* lines 364-394: the glob yields a forcing file, in no promised order, the
\* loop body relocates it, and the loops move on to the next one
ForForcingFile ==
    /\ pc = "file"
    /\ \E f \in loop.forcing_files :
       \E r \in {Relocate(f, loop.the_day, range, forc_type, copy, dirs, entries, srcContent)} :
          /\ forcing_file' = f
          /\ dirs' = r.dirs
          /\ entries' = r.entries
          /\ srcContent' = r.content
          /\ err' = r.err
          /\ IF r.err # ""
             THEN /\ pc' = "error"
                  /\ loop' = [loop EXCEPT !.forcing_files = loop.forcing_files \ {f}]
                  /\ log' = log
             ELSE /\ loop' = Advance(srcTree, range,
                                     [loop EXCEPT !.forcing_files = loop.forcing_files \ {f}])
                  /\ pc' = IF loop'.done THEN "done" ELSE "file"
                  /\ log' = Append(log, [src |-> f, dir |-> r.path[1], name |-> r.path[2]])
    /\ UNCHANGED <<srcTree, nwm_forcing_dir, range_arg, ldasin_exists, cwd, warned, calls,
                   range, copy, forc_type, prev, repeat, start>>
    /\ UNCHANGED assemblerVars

\* the call returns None or raises: its locals are gone
Return ==
    /\ pc \in {"done", "error"}
    /\ pc' = "idle"
    /\ prev' = IF pc = "done" /\ copy THEN forc_type ELSE 0
    /\ err' = ""
    /\ range' = <<>>
    /\ copy' = FALSE
    /\ forc_type' = 0
    /\ loop' = LoopStart(<<>>)
    /\ forcing_file' = NoFile
    /\ log' = <<>>
    /\ repeat' = FALSE
    /\ start' = NoStart
    /\ UNCHANGED <<srcTree, srcContent, nwm_forcing_dir, range_arg, ldasin_exists, dirs,
                   entries, cwd, warned, calls>>
    /\ UNCHANGED assemblerVars

\* the forc_type arguments tried: the two supported ones and one that is not
ForcTypes == {1, 2, 3}

Next ==
    \/ \E cp \in BOOLEAN, ft \in ForcTypes : Call(cp, ft)
    \/ ForForcingFile
    \/ Return

Spec == Init /\ [][Next]_vars

\* ------------------------------------------------- properties: relocator
\* days from 0001-01-01 to the first day of year y, and to the first day of
\* month m within year y
DaysBeforeYear(y) == 365 * (y - 1) + ((y - 1) \div 4) - ((y - 1) \div 100) + ((y - 1) \div 400)

DaysBeforeMonth(y, m) ==
    <<0, 31, 59, 90, 120, 151, 181, 212, 243, 273, 304, 334>>[m]
        + (IF m > 2 /\ ((y % 4 = 0 /\ y % 100 # 0) \/ y % 400 = 0) THEN 1 ELSE 0)

\* the instant a ten-digit YYYYMMDDHH stamp names, in hours
StampHours(ds) ==
    LET y == IntOf(SubSeq(ds, 1, 4))
        m == IntOf(SubSeq(ds, 5, 6))
        d == IntOf(SubSeq(ds, 7, 8))
        H == IntOf(SubSeq(ds, 9, 10))
    IN  (DaysBeforeYear(y) + DaysBeforeMonth(y, m) + d) * 24 + H

MonthLength(y, m) ==
    IF m = 12 THEN 31 ELSE DaysBeforeMonth(y, m + 1) - DaysBeforeMonth(y, m)

\* ten digits that name a month, a day of it and an hour of the day
IsStamp(ds) ==
    /\ Len(ds) = 10
    /\ \A k \in 1..10 : IsDigit(ds[k])
    /\ IntOf(SubSeq(ds, 5, 6)) \in 1..12
    /\ IntOf(SubSeq(ds, 7, 8)) \in 1..MonthLength(IntOf(SubSeq(ds, 1, 4)), IntOf(SubSeq(ds, 5, 6)))
    /\ IntOf(SubSeq(ds, 9, 10)) \in 0..23

\* midnight of a day directory, in hours
DayHours(day) == StampHours(Drop(day, 2) \o <<"0", "0">>)

InitHourOf(i) == IntOf(FieldDigits(Entry(i).name, 1))

CastValueOf(i) == IntOf(FieldDigits(Entry(i).name, 4))

PathSet(ents) == {<<e.dir, e.name>> : e \in ents}

IndexOf(e) == CHOOSE i \in 1..Len(SourceEntries) : SourceEntries[i] = e

\* the day directories the call was given
GivenDays ==
    IF nwm_forcing_dir.list
    THEN {nwm_forcing_dir.dirs[k] : k \in 1..Len(nwm_forcing_dir.dirs)}
    ELSE DaysOf(srcTree)

\* C1: for an enumerated range category, every file relocated lies under the
\* directory named by D + h hours as YYYYMMDDHH and is named by the valid
\* time D + (h - c) hours for an analysis_assim* category and D + (h + c)
\* hours otherwise, D being the file's day, h its init hour and c its cast
\* value; day, month and year boundaries included.
C1_InitAndValidTime ==
    range_arg \in EnumeratedRanges =>
        \A k \in 1..Len(log) :
            LET i == log[k].src
                D == DayHours(Entry(i).day)
                h == InitHourOf(i)
                c == CastValueOf(i)
                valid == SubSeq(log[k].name, 1, 10)
            IN  /\ IsStamp(log[k].dir)
                /\ StampHours(log[k].dir) = D + h
                /\ log[k].dir \in dirs
                /\ <<log[k].dir, log[k].name>> \in PathSet(entries)
                /\ IsStamp(valid)
                /\ StampHours(valid) =
                       IF StartsWith(range_arg, AnalysisAssim) THEN D + (h - c) ELSE D + (h + c)

\* C1 witness: an analysis_assim_extend file whose valid time lies in the
\* day before its day directory has been relocated.
C1_Witness ==
    /\ range_arg = AnalysisAssim \o ExtendSuffix
    /\ \E k \in 1..Len(log) :
          /\ InitHourOf(log[k].src) - CastValueOf(log[k].src) < 0
          /\ StampHours(SubSeq(log[k].name, 1, 10)) < DayHours(Entry(log[k].src).day)

\* C2 (as claimed): forc_type 1 names files YYYYMMDDHH.LDASIN_DOMAIN1,
\* forc_type 2 names them YYYYMMDDHH00.LDASIN_DOMAIN1, and with any other
\* forc_type the call fails and the destination holds no directory, file or
\* link it did not hold before the call.
C2_ForcTypeClaim ==
    /\ \A k \in 1..Len(log) :
          /\ forc_type = 1 => log[k].name = SubSeq(log[k].name, 1, 10) \o LdasinSuffix
          /\ forc_type = 2 => log[k].name = SubSeq(log[k].name, 1, 10) \o <<"0", "0">> \o LdasinSuffix
    /\ (pc \in {"file", "done", "error"} /\ forc_type \notin {1, 2}) =>
          /\ pc = "error"
          /\ err = "ValueError"
          /\ dirs = start.dirs
          /\ entries = start.entries

\* the scenario of C3: the tree is the one file
\* nwm.20200601/forcing_medium_range/nwm.t00z.medium_range.forcing.f003.conus.nc,
\* the call names that tree, range medium_range, forc_type 1, and has ended
Scenario ==
    /\ srcTree = {IndexOf(MediumConus003)}
    /\ GivenDays = {Day20200601}
    /\ range_arg = MediumRange
    /\ forc_type = 1
    /\ pc \in {"done", "error"}

\* the destination holds dir/name, a link to source file i or a copy of it
HoldsLinkOrCopy(dir, name, i) ==
    \E e \in entries :
        /\ e.dir = dir
        /\ e.name = name
        /\ \/ e.kind = "link" /\ e.ref = i
           \/ e.kind = "file" /\ e.ref = srcContent[i]

ScenarioName == <<"2", "0", "2", "0", "0", "6", "0", "1", "0", "3">> \o LdasinSuffix

\* C3 (as claimed): in the scenario the destination entry is
\* 20200600/2020060103.LDASIN_DOMAIN1, a link to or copy of the source file.
C3_ScenarioAsClaimed ==
    Scenario =>
        HoldsLinkOrCopy(<<"2", "0", "2", "0", "0", "6", "0", "0">>, ScenarioName,
                        IndexOf(MediumConus003))

\* C3 (amended): in the scenario the destination entry is
\* 2020060100/2020060103.LDASIN_DOMAIN1, a link to or copy of the source file.
C3_Scenario ==
    Scenario =>
        HoldsLinkOrCopy(<<"2", "0", "2", "0", "0", "6", "0", "1", "0", "0">>, ScenarioName,
                        IndexOf(MediumConus003))

\* C3 witness: the first call of the scenario has returned, having linked.
C3_Witness ==
    /\ Scenario
    /\ pc = "done"
    /\ calls = 1
    /\ ~copy
    /\ Len(log) = 1

\* the category without a trailing _hawaii
WithoutHawaii(cat) ==
    IF Len(cat) >= 2 /\ SubSeq(cat, Len(cat) - 1, Len(cat)) = HawaiiSuffix
    THEN SubSeq(cat, 1, Len(cat) - 2)
    ELSE cat

\* the files of the given days in a directory forcing_<cat> whose names
\* match *<cat without _hawaii>.forcing.*
Selected(cat) ==
    {i \in FilesOf(srcTree) :
        /\ Entry(i).day \in GivenDays
        /\ Entry(i).member = <<"forcing", "_">> \o cat
        /\ GlobMatch(<<"*">> \o WithoutHawaii(cat) \o <<".", "forcing", ".", "*">>,
                     Entry(i).name)}

\* C4: when a call for an enumerated category returns, the files relocated
\* are exactly those in a member directory forcing_<category> (suffix kept)
\* whose names match *<category without _hawaii>.forcing.*.
C4_HawaiiSelection ==
    (pc = "done" /\ range_arg \in EnumeratedRanges) =>
        {log[k].src : k \in 1..Len(log)} = Selected(range_arg)

\* C4 witness: a short_range_hawaii call has returned; its member directory
\* held a file named with the suffix and one named without, and the one
\* without was relocated.
C4_Witness ==
    /\ pc = "done"
    /\ range_arg = ShortRange \o HawaiiSuffix
    /\ {IndexOf(ShortHawaii), IndexOf(ShortHawaiiNamed)} \subseteq srcTree
    /\ {log[k].src : k \in 1..Len(log)} = {IndexOf(ShortHawaii)}

LogSources == {log[k].src : k \in 1..Len(log)}

LogPaths == {<<log[k].dir, log[k].name>> : k \in 1..Len(log)}

WellFormed(i) ==
    LET fields == Split(Entry(i).name, Dot)
        HasDigit(q) == \E k \in 1..Len(q) : IsDigit(q[k])
    IN  Len(fields) >= 5 /\ HasDigit(fields[2]) /\ HasDigit(fields[5])

\* ents holds an entry at the destination path of source file i: under
\* init time D + h, named by valid time D + (h -/+ c) in the format of ft
HoldsPathOf(ents, i, ft) ==
    LET D == DayHours(Entry(i).day)
        h == InitHourOf(i)
        c == CastValueOf(i)
        off == IF Contains(range_arg, AnalysisAssim) THEN h - c ELSE h + c
    IN  \E e \in ents :
            /\ StampHours(e.dir) = D + h
            /\ StampHours(SubSeq(e.name, 1, 10)) = D + off
            /\ Len(e.name) = 10 + (IF ft = 2 THEN 2 ELSE 0) + Len(LdasinSuffix)

\* C8: in link mode no step changes or removes an entry the destination
\* holds; a step that takes up a file whose destination path is already
\* held raises FileExistsError and leaves entries and log as they were; and
\* once the call has failed nothing more is created.
C8_LinkNeverReplaces ==
    [][/\ (pc = "file" /\ ~copy) => entries \subseteq entries'
       /\ (/\ pc = "file"
           /\ ~copy
           /\ forc_type \in {1, 2}
           /\ WellFormed(forcing_file')
           /\ HoldsPathOf(entries, forcing_file', forc_type))
          => (/\ pc' = "error"
              /\ err' = "FileExistsError"
              /\ entries' = entries
              /\ log' = log)
       /\ pc = "error" => (entries' = entries /\ dirs' = dirs)]_vars

\* C8 witness: a link-mode call has failed on a file whose destination path
\* an earlier file of the same invocation had taken.
C8_Witness ==
    /\ pc = "error"
    /\ err = "FileExistsError"
    /\ ~copy
    /\ calls = 1
    /\ log # <<>>
    /\ HoldsPathOf(entries, forcing_file, forc_type)
    /\ PathSet(entries) = LogPaths

\* source file i comes before source file j in sorted order of day
\* directory, member directory and file name
Before(i, j) ==
    \/ LexLess(Entry(i).day, Entry(j).day)
    \/ /\ Entry(i).day = Entry(j).day
       /\ \/ LexLess(Entry(i).member, Entry(j).member)
          \/ /\ Entry(i).member = Entry(j).member
             /\ LexLess(Entry(i).name, Entry(j).name)

\* C9 (as claimed): the files are relocated in sorted order of day
\* directory, member directory and file name.
C9_SortedOrderClaim ==
    \A k \in 1..(Len(log) - 1) : Before(log[k].src, log[k + 1].src)

\* the range without a leading forcing_
Category == IF StartsWith(range_arg, ForcingPrefix) THEN Drop(range_arg, 2) ELSE range_arg

\* C10: a call returns normally only if no selected file is malformed, no
\* malformed file is ever relocated, and when a call fails on a malformed
\* file the destination holds what it held before the call and the entries
\* of the files relocated before, and nothing for the malformed file.
C10_MalformedAborts ==
    /\ pc = "done" => \A i \in Selected(Category) : WellFormed(i)
    /\ \A i \in LogSources : WellFormed(i)
    /\ (pc = "error" /\ err = "IndexError") =>
          /\ ~WellFormed(forcing_file)
          /\ forcing_file \in Selected(Category)
          /\ forcing_file \notin LogSources
          /\ PathSet(entries) = PathSet(start.entries) \cup LogPaths

\* C10 witness: a call has failed on a malformed file after relocating
\* another file, whose entry is in place.
C10_Witness ==
    /\ pc = "error"
    /\ err = "IndexError"
    /\ ~WellFormed(forcing_file)
    /\ Len(log) = 1
    /\ LogPaths \subseteq PathSet(entries)
    /\ start.entries = {}

\* --------------------------------------------------------- open_nwmdataset
\* np.datetime64('1970-01-01T00:00:00', 'ns'), in hours since the epoch
Sentinel == 0

\* the reference times the input files carry, in hours since the epoch
RefTimes == {Sentinel, 6, 12}

RECURSIVE SeqsUpTo(_, _)
SeqsUpTo(S, n) ==
    IF n = 0 THEN {<<>>}
    ELSE SeqsUpTo(S, n - 1) \cup {Append(q, x) : q \in {r \in SeqsUpTo(S, n - 1) : Len(r) = n - 1}, x \in S}

\* OpenDataset that leaves reference_time as the file has it
OpenDatasetKeep(i, ref, fc) == [file |-> i, reference_time |-> ref]

\* xr.open_dataset of the i-th path, and lines 39-41: the reference_time
\* coordinate replaced by the sentinel when not a forecast
OpenDataset(i, ref, fc) ==
    [file |-> i, reference_time |-> IF fc THEN ref ELSE Sentinel]

\* DictAdd that puts a new key in front
DictAddFront(dict, ds) ==
    LET ref_time == ds.reference_time
    IN  IF \E k \in 1..Len(dict) : dict[k].key = ref_time
        THEN [k \in 1..Len(dict) |->
                 IF dict[k].key = ref_time
                 THEN [dict[k] EXCEPT !.value = Append(@, ds)]
                 ELSE dict[k]]
        ELSE <<[key |-> ref_time, value |-> <<ds>>]>> \o dict

\* lines 43-49: append ds to the list at its key, or add the key at the end
DictAdd(dict, ds) ==
    LET ref_time == ds.reference_time
    IN  IF \E k \in 1..Len(dict) : dict[k].key = ref_time
        THEN [k \in 1..Len(dict) |->
                 IF dict[k].key = ref_time
                 THEN [dict[k] EXCEPT !.value = Append(@, ds)]
                 ELSE dict[k]]
        ELSE Append(dict, [key |-> ref_time, value |-> <<ds>>])

\* xr.concat(datasets, dim='time', coords='minimal') of datasets that share
\* reference_time: the time slices one after the other
ConcatTime(datasets) ==
    [reference_time |-> <<datasets[1].reference_time>>,
     time |-> <<[k \in 1..Len(datasets) |-> datasets[k].file]>>]

\* xr.concat(forecasts, dim='reference_time', coords='minimal'): one row per
\* forecast, in list order
RECURSIVE ConcatReferenceTime(_)
ConcatReferenceTime(forecasts) ==
    IF forecasts = <<>> THEN NoDataset
    ELSE LET rest == ConcatReferenceTime(Tail(forecasts))
         IN  [reference_time |-> Head(forecasts).reference_time \o rest.reference_time,
              time |-> Head(forecasts).time \o rest.time]

AssemblerInit ==
    /\ srcTree = {}
    /\ srcContent = <<>>
    /\ nwm_forcing_dir = [list |-> FALSE, dirs |-> <<>>]
    /\ range_arg = MediumRange
    /\ RelocatorStart
    /\ paths \in SeqsUpTo(RefTimes, MaxPaths)
    /\ forecast \in BOOLEAN
    /\ AssemblerStart
    /\ apc = "open"

\* lines 36-49: open the next file and put it in its group
OpenFile ==
    /\ apc = "open"
    /\ opened < Len(paths)
    /\ opened' = opened + 1
    /\ ds_dict' = DictAdd(ds_dict, OpenDataset(opened', paths[opened'], forecast))
    /\ UNCHANGED <<paths, forecast, forecast_list, nwm_dataset, apc>>
    /\ UNCHANGED relocatorVars

\* lines 52-56: every file is opened; concatenate the next group along time
ConcatForecast ==
    /\ apc = "open"
    /\ opened = Len(paths)
    /\ Len(forecast_list) < Len(ds_dict)
    /\ forecast_list' = Append(forecast_list, ConcatTime(ds_dict[Len(forecast_list) + 1].value))
    /\ UNCHANGED <<paths, forecast, opened, ds_dict, nwm_dataset, apc>>
    /\ UNCHANGED relocatorVars

\* lines 59-67: concatenate the forecasts along reference_time and return;
\* xr.concat raises on an empty list
ConcatAll ==
    /\ apc = "open"
    /\ opened = Len(paths)
    /\ Len(forecast_list) = Len(ds_dict)
    /\ IF forecast_list = <<>>
       THEN apc' = "error" /\ UNCHANGED nwm_dataset
       ELSE apc' = "done" /\ nwm_dataset' = ConcatReferenceTime(forecast_list)
    /\ UNCHANGED <<paths, forecast, opened, ds_dict, forecast_list>>
    /\ UNCHANGED relocatorVars

AssemblerNext == OpenFile \/ ConcatForecast \/ ConcatAll

AssemblerSpec == AssemblerInit /\ [][AssemblerNext]_vars

\* ------------------------------------------------- properties: assembler
\* the key each input is grouped under
Keys == [k \in 1..Len(paths) |-> IF forecast THEN paths[k] ELSE Sentinel]

\* the distinct elements of q, each where it first occurs
RECURSIVE FirstSeen(_)
FirstSeen(q) ==
    IF q = <<>> THEN <<>>
    ELSE LET r == FirstSeen(SubSeq(q, 1, Len(q) - 1))
             x == q[Len(q)]
         IN  IF \E k \in 1..Len(r) : r[k] = x THEN r ELSE Append(r, x)

\* the positions 1..n at which q holds x, ascending
RECURSIVE PositionsOf(_, _, _)
PositionsOf(q, x, n) ==
    IF n = 0 THEN <<>>
    ELSE IF q[n] = x THEN Append(PositionsOf(q, x, n - 1), n)
    ELSE PositionsOf(q, x, n - 1)

\* C5: the reference_time axis of the result is the distinct keys of the
\* inputs in first-seen order, and the row of each key holds the inputs of
\* that key, and only those, in input order.
C5_FirstSeenOrder ==
    apc = "done" =>
        /\ nwm_dataset.reference_time = FirstSeen(Keys)
        /\ Len(nwm_dataset.time) = Len(nwm_dataset.reference_time)
        /\ \A g \in 1..Len(nwm_dataset.time) :
              nwm_dataset.time[g] = PositionsOf(Keys, nwm_dataset.reference_time[g], Len(paths))

\* C5 witness: three forecast files, the later reference time first, the
\* first and the last sharing it.
C5_Witness ==
    /\ apc = "done"
    /\ forecast
    /\ paths = <<12, 6, 12>>
    /\ nwm_dataset.reference_time = <<12, 6>>
    /\ nwm_dataset.time = <<<<1, 3>>, <<2>>>>

\* C6: with forecast=False and at least one input the call returns a
\* dataset whose reference_time axis is the sentinel alone and whose one row
\* holds all the inputs in input order.
C6_SentinelGroup ==
    (~forecast /\ apc \in {"done", "error"} /\ Len(paths) >= 1) =>
        /\ apc = "done"
        /\ nwm_dataset.reference_time = <<Sentinel>>
        /\ nwm_dataset.time = <<[k \in 1..Len(paths) |-> k]>>

\* C6 witness: three files with pairwise distinct reference times were
\* assembled with forecast=False.
C6_Witness ==
    /\ apc = "done"
    /\ ~forecast
    /\ Len(paths) = 3
    /\ \A j, k \in 1..3 : j # k => paths[j] # paths[k]
    /\ Len(nwm_dataset.reference_time) = 1

====
